---- MODULE Spec2Model ----
(***************************************************************************)
(* Model of the Anchor program `tubbly` (programs/tubbly/src/lib.rs).      *)
(*                                                                         *)
(* The persistent store is three families of program-derived accounts:     *)
(*   state            seeds ["state"]                                      *)
(*   requests[req_id] seeds ["request", req_id]                            *)
(*   users[key]       seeds ["user", key]                                  *)
(* An account that was never created has initialized = FALSE and zeroed    *)
(* fields.  An instruction is a function from the accounts before it to    *)
(* its outcome: the result (Ok or the error), the data returned, the       *)
(* events emitted and the accounts after it.  The account constraints of   *)
(* its #[derive(Accounts)] struct are validated first, then the handler    *)
(* runs; on any error the transaction is rolled back, so the accounts      *)
(* after are the accounts before.  The accounts passed to an instruction   *)
(* are the ones its seeds derive.  One action per instruction commits the  *)
(* accounts of its outcome.                                                *)
(***************************************************************************)
EXTENDS Integers, Sequences, FiniteSets, TLC

\* ---- bounds ----
\* number of distinct key pairs that can sign a transaction
NumSigners == 2
\* number of distinct request ids in use
NumReqIds == 1
\* largest value of the balance type (u64::MAX, scaled to the model)
MaxU64 == 2

\* ---- identities and values ----
\* Pubkey::default(), the all-zero key; no key pair signs for it
Zero == 0
Signers == 1 .. NumSigners
Pubkeys == {Zero} \cup Signers
ReqIds == 1 .. NumReqIds
Amounts == 0 .. MaxU64

\* state, requests, users: the accounts; submitted: a history of the run,
\* for each identity the total of the amounts of its successful submits
VARIABLES state, requests, users, submitted
vars == <<state, requests, users, submitted>>

\* the accounts as they are now
Accounts == [state |-> state, requests |-> requests, users |-> users]

\* ---- account data ----
\* an account address that holds no data yet, per account type
NoState == [initialized |-> FALSE, owner |-> Zero, request_counter |-> 0]
NoRequest == [initialized |-> FALSE, req_id |-> 0, caller |-> Zero, balance |-> 0, is_active |-> FALSE]
NoUserAccount == [initialized |-> FALSE, owner |-> Zero, balance |-> 0]

\* `init_if_needed`: an absent account is created with zeroed fields
init_if_needed(account) == [account EXCEPT !.initialized = TRUE]

\* ---- events ----
OwnershipChanged(prev_owner, new_owner) ==
  [name |-> "OwnershipChanged", prev_owner |-> prev_owner, new_owner |-> new_owner]
Submission(req_id, caller, amount) ==
  [name |-> "Submission", req_id |-> req_id, caller |-> caller, amount |-> amount]
Confirmation(req_id, user, amount) ==
  [name |-> "Confirmation", req_id |-> req_id, user |-> user, amount |-> amount]

\* (is_active reported as true whatever the slot holds)
RequestData_always_active(request) ==
  [req_id |-> request.req_id, caller |-> request.caller,
   balance |-> request.balance, is_active |-> TRUE]

\* the view get_request returns
RequestData(request) ==
  [req_id |-> request.req_id, caller |-> request.caller,
   balance |-> request.balance, is_active |-> request.is_active]

\* the errors the program defines
ErrorCode ==
  {"NotOwner", "RequestIdAlreadyUsed", "IncorrectRequestId", "NewOwnerIsZero",
   "BalanceOverflow"}

\* ---- outcomes ----
\* (the emit! left out: a successful instruction logs nothing)
Ok_silent(acc, ret, events) ==
  [result |-> "Ok", ret |-> ret, events |-> <<>>, accounts |-> acc]

\* Ok(..): the instruction returned `ret`, emitted `events` and wrote `acc`
Ok(acc, ret, events) ==
  [result |-> "Ok", ret |-> ret, events |-> events, accounts |-> acc]

\* an error: nothing is returned or logged and the accounts `acc` the
\* instruction started from are kept
Err(acc, error) ==
  [result |-> error, ret |-> <<>>, events |-> <<>>, accounts |-> acc]

\* (the accounts an `init_if_needed` constraint created outlive the failure)
rollback_keeps_created(before, touched) == touched

\* (the user accounts an `init_if_needed` constraint created outlive the
\* failure)
rollback_keeps_users(before, touched) == [before EXCEPT !.users = touched.users]

\* an instruction that fails after its constraints created accounts: the
\* runtime discards every write of the transaction, the creations included
rollback(before, touched) == before

\* ---- checks of the handlers ----
\* (the owner check left out: every signer passes)
is_owner_anyone(key, st) == TRUE

\* require!(signer.key() == state.owner, NotOwner)
is_owner(key, st) == key = st.owner

\* (a slot counts as available only until its first use)
slot_available_unused(request) == request.caller = Zero /\ request.req_id = 0

\* (the admission check left out: every slot counts as available)
slot_available_always(request) == TRUE

\* require!(request.caller == Pubkey::default(), RequestIdAlreadyUsed)
slot_available(request) == request.caller = Zero

\* (the zero check left out)
new_owner_valid_unchecked(key) == TRUE

\* (the comparison inverted: only the zero key is accepted)
new_owner_valid_inverted(key) == key = Zero

\* require!(new_owner.key() != Pubkey::default(), NewOwnerIsZero)
new_owner_valid(key) == key /= Zero

\* (the balance replaced by the amount instead of increased by it)
checked_add_overwriting(a, b) == b

\* (a saturating addition in place of the checked one)
checked_add_saturating(a, b) == IF a + b > MaxU64 THEN MaxU64 ELSE a + b

\* (a wrapping addition in place of the checked one)
checked_add_wrapping(a, b) == (a + b) % (MaxU64 + 1)

\* u64::checked_add: -1 stands for None
checked_add(a, b) == IF a + b > MaxU64 THEN -1 ELSE a + b

\* (`init_if_needed` in place of `init`: an existing account is accepted)
init_allowed_if_needed(account) == TRUE

\* the `init` constraint of Initialize.state: creating an address that
\* already holds an account is refused by the system program
init_allowed(account) == ~account.initialized

\* (the reset of `caller` left out)
mark_processed_keeps_caller(request) ==
  [request EXCEPT !.is_active = FALSE, !.balance = 0]

\* (the reset of `is_active` left out)
mark_processed_keeps_active(request) ==
  [request EXCEPT !.balance = 0, !.caller = Zero]

\* (the reset of `balance` left out)
mark_processed_keeps_balance(request) ==
  [request EXCEPT !.is_active = FALSE, !.caller = Zero]

\* "Mark request as processed"
mark_processed(request) ==
  [request EXCEPT !.is_active = FALSE, !.balance = 0, !.caller = Zero]

\* (the assignment of the new owner left out)
set_owner_forgotten(st, new_owner) == st

\* state.owner = ctx.accounts.new_owner.key()
set_owner(st, new_owner) == [st EXCEPT !.owner = new_owner]

\* Confirmation.user is read from the user account
confirmation_user(user_account) == user_account.owner

\* ---- instructions ----
initialize(acc, owner) ==
  IF ~init_allowed(acc.state) THEN Err(acc, "AccountAlreadyInUse")
  ELSE Ok([acc EXCEPT !.state = [initialized |-> TRUE, owner |-> owner,
                                 request_counter |-> 0]],
          <<>>, <<OwnershipChanged(Zero, owner)>>)

submit(acc, user, req_id, amount) ==
  LET request == init_if_needed(acc.requests[req_id])
      created == [acc EXCEPT !.requests[req_id] = request]
  IN IF ~slot_available(request)
       THEN Err(rollback(acc, created), "RequestIdAlreadyUsed")
     ELSE Ok([acc EXCEPT !.requests[req_id] =
                [request EXCEPT !.req_id = req_id, !.caller = user,
                                !.balance = amount, !.is_active = TRUE]],
             <<>>, <<Submission(req_id, user, amount)>>)

confirm(acc, owner, req_id) ==
  LET request == acc.requests[req_id]
      user_account == init_if_needed(acc.users[request.caller])
      created == [acc EXCEPT !.users[request.caller] = user_account]
      sum == checked_add(user_account.balance, request.balance)
  IN IF ~acc.state.initialized \/ ~request.initialized
       THEN Err(acc, "AccountNotInitialized")
     ELSE IF ~is_owner(owner, acc.state)
       THEN Err(rollback(acc, created), "NotOwner")
     ELSE IF ~request.is_active
       THEN Err(rollback(acc, created), "IncorrectRequestId")
     ELSE IF sum = -1
       THEN Err(rollback(acc, created), "BalanceOverflow")
     ELSE Ok([acc EXCEPT
                !.users[request.caller] = [user_account EXCEPT !.balance = sum],
                !.requests[req_id] = mark_processed(request)],
             <<>>,
             <<Confirmation(req_id, confirmation_user(user_account), request.balance)>>)

balance_of(acc, user) ==
  IF ~acc.users[user].initialized THEN Err(acc, "AccountNotInitialized")
  ELSE Ok(acc, <<acc.users[user].balance>>, <<>>)

get_request(acc, viewer, req_id) ==
  LET request == acc.requests[req_id]
  IN IF ~acc.state.initialized \/ ~request.initialized
       THEN Err(acc, "AccountNotInitialized")
     ELSE IF ~is_owner(viewer, acc.state) THEN Err(acc, "NotOwner")
     ELSE Ok(acc, <<RequestData(request)>>, <<>>)

change_ownership(acc, current_owner, new_owner) ==
  IF ~acc.state.initialized THEN Err(acc, "AccountNotInitialized")
  ELSE IF ~is_owner(current_owner, acc.state) THEN Err(acc, "NotOwner")
  ELSE IF ~new_owner_valid(new_owner) THEN Err(acc, "NewOwnerIsZero")
  ELSE Ok([acc EXCEPT !.state = set_owner(acc.state, new_owner)],
          <<>>, <<OwnershipChanged(acc.state.owner, new_owner)>>)

\* ---- transactions ----
Init ==
  /\ state = NoState
  /\ requests = [r \in ReqIds |-> NoRequest]
  /\ users = [k \in Pubkeys |-> NoUserAccount]
  /\ submitted = [k \in Pubkeys |-> 0]

\* the accounts of the outcome become the accounts
Commit(out) ==
  /\ state' = out.accounts.state
  /\ requests' = out.accounts.requests
  /\ users' = out.accounts.users

Initialize(owner) ==
  Commit(initialize(Accounts, owner)) /\ UNCHANGED submitted

Submit(user, req_id, amount) ==
  LET out == submit(Accounts, user, req_id, amount)
  IN /\ Commit(out)
     /\ submitted' = IF out.result = "Ok"
                      THEN [submitted EXCEPT ![user] = @ + amount]
                      ELSE submitted

Confirm(owner, req_id) ==
  Commit(confirm(Accounts, owner, req_id)) /\ UNCHANGED submitted

BalanceOf(user) ==
  Commit(balance_of(Accounts, user)) /\ UNCHANGED submitted

GetRequest(viewer, req_id) ==
  Commit(get_request(Accounts, viewer, req_id)) /\ UNCHANGED submitted

ChangeOwnership(current_owner, new_owner) ==
  Commit(change_ownership(Accounts, current_owner, new_owner)) /\ UNCHANGED submitted

Next ==
  \/ \E owner \in Signers : Initialize(owner)
  \/ \E user \in Signers, req_id \in ReqIds, amount \in Amounts : Submit(user, req_id, amount)
  \/ \E owner \in Signers, req_id \in ReqIds : Confirm(owner, req_id)
  \/ \E user \in Pubkeys : BalanceOf(user)
  \/ \E viewer \in Signers, req_id \in ReqIds : GetRequest(viewer, req_id)
  \/ \E current_owner \in Signers, new_owner \in Pubkeys : ChangeOwnership(current_owner, new_owner)

Spec == Init /\ [][Next]_vars

\* ---- every call of the program ----
\* signer: the Signer account; req_id, amount: the arguments; key: the
\* AccountInfo argument (user, new_owner); a field a call lacks is 0
Call(name, signer, req_id, amount, key) ==
  [name |-> name, signer |-> signer, req_id |-> req_id, amount |-> amount, key |-> key]

Calls ==
  {Call("initialize", u, 0, 0, Zero) : u \in Signers}
  \cup {Call("submit", c[1], c[2], c[3], Zero) : c \in Signers \X ReqIds \X Amounts}
  \cup {Call("confirm", c[1], c[2], 0, Zero) : c \in Signers \X ReqIds}
  \cup {Call("balance_of", Zero, 0, 0, k) : k \in Pubkeys}
  \cup {Call("get_request", c[1], c[2], 0, Zero) : c \in Signers \X ReqIds}
  \cup {Call("change_ownership", c[1], 0, 0, c[2]) : c \in Signers \X Pubkeys}

\* the outcome of call c on the accounts acc
Apply(acc, c) ==
  CASE c.name = "initialize" -> initialize(acc, c.signer)
    [] c.name = "submit" -> submit(acc, c.signer, c.req_id, c.amount)
    [] c.name = "confirm" -> confirm(acc, c.signer, c.req_id)
    [] c.name = "balance_of" -> balance_of(acc, c.key)
    [] c.name = "get_request" -> get_request(acc, c.signer, c.req_id)
    [] c.name = "change_ownership" -> change_ownership(acc, c.signer, c.key)

\* ---- vocabulary of the properties ----
\* `out` is a failure with `error` of an instruction run on the accounts
\* `acc`: nothing is logged and every account is as it was
RejectedOn(acc, out, error) ==
  /\ out.result = error
  /\ out.events = <<>>
  /\ out.accounts = acc

\* the same, for an instruction run on the accounts as they are now
Rejected(out, error) == RejectedOn(Accounts, out, error)

\* every user account but the one of `key` is in `after` as it is now
OnlyUserChanged(after, key) ==
  \A k \in Pubkeys \ {key} : after.users[k] = users[k]

\* C1: an owner confirm of an active request whose credit fits the balance
\* type succeeds, adds exactly the request's amount to the submitter's user
\* account (created at 0 when absent), resets the slot to available, and a
\* submit of the same req_id that follows it succeeds for any signer.
C1_ConfirmCreditsAndFrees ==
  \A o \in Signers, r \in ReqIds :
    LET X == requests[r].caller
        a == requests[r].balance
        out == confirm(Accounts, o, r)
        after == out.accounts
    IN ( /\ state.initialized /\ o = state.owner
         /\ requests[r].is_active
         /\ users[X].balance + a <= MaxU64 )
       => /\ out.result = "Ok"
          /\ after.users[X].initialized
          /\ after.users[X].balance = users[X].balance + a
          /\ ~after.requests[r].is_active
          /\ after.requests[r].balance = 0
          /\ after.requests[r].caller = Zero
          /\ \A u \in Signers, b \in Amounts :
               LET again == submit(after, u, r, b)
               IN /\ again.result = "Ok"
                  /\ again.accounts.requests[r].caller = u
                  /\ again.accounts.requests[r].balance = b
                  /\ again.accounts.requests[r].is_active

\* C1 witness: a request of a positive amount is pending, its submitter
\* already has a user account, and the owner's confirm credits it
C1_Witness ==
  \E r \in ReqIds :
    /\ state.initialized /\ requests[r].is_active /\ requests[r].balance > 0
    /\ users[requests[r].caller].initialized
    /\ confirm(Accounts, state.owner, r).result = "Ok"
    /\ confirm(Accounts, state.owner, r).accounts.users[requests[r].caller].balance
         > users[requests[r].caller].balance

\* C2 as stated: once GlobalState exists, confirm, get_request and
\* change_ownership by a signer other than the owner fail with NotOwner,
\* whatever the req_id, the slot's state or the new owner, and change nothing.
C2_Original ==
  state.initialized =>
    \A u \in Signers \ {state.owner}, r \in ReqIds, k \in Pubkeys :
      /\ Rejected(confirm(Accounts, u, r), "NotOwner")
      /\ Rejected(get_request(Accounts, u, r), "NotOwner")
      /\ Rejected(change_ownership(Accounts, u, k), "NotOwner")

\* C2 (amended): once GlobalState exists, confirm, get_request and
\* change_ownership by a signer other than the owner always fail and leave
\* the owner, every request slot and every user account unchanged; the error
\* is NotOwner, except that confirm and get_request on a req_id whose Request
\* account was never created fail with AccountNotInitialized before the
\* owner check is reached.
C2_NonOwnerRejected ==
  state.initialized =>
    \A u \in Signers \ {state.owner} :
      /\ \A r \in ReqIds :
           LET error == IF requests[r].initialized THEN "NotOwner"
                        ELSE "AccountNotInitialized"
           IN /\ Rejected(confirm(Accounts, u, r), error)
              /\ Rejected(get_request(Accounts, u, r), error)
      /\ \A k \in Pubkeys :
           Rejected(change_ownership(Accounts, u, k), "NotOwner")

\* C2 witness: a request is pending and a signer who is not the owner is
\* refused its confirm with NotOwner
C2_Witness ==
  \E u \in Signers, r \in ReqIds :
    /\ state.initialized /\ u /= state.owner
    /\ requests[r].is_active /\ requests[r].balance > 0
    /\ confirm(Accounts, u, r).result = "NotOwner"

\* C3: of two submits of one req_id with no successful confirm of it between
\* them, the first succeeds and the second fails with RequestIdAlreadyUsed,
\* and the slot keeps the first submission's caller and amount and stays
\* active.  A submit of a slot that is not active succeeds and stores its
\* caller and amount; any submit of an active slot fails and changes nothing;
\* and no call but a successful confirm of its req_id changes an active slot.
C3_SecondSubmitRejected ==
  /\ \A r \in ReqIds, u \in Signers, a \in Amounts :
       LET first == submit(Accounts, u, r, a)
       IN IF requests[r].is_active
          THEN Rejected(first, "RequestIdAlreadyUsed")
          ELSE /\ first.result = "Ok"
               /\ first.accounts.requests[r].caller = u
               /\ first.accounts.requests[r].balance = a
               /\ first.accounts.requests[r].is_active
               /\ \A v \in Signers, b \in Amounts :
                    RejectedOn(first.accounts, submit(first.accounts, v, r, b),
                               "RequestIdAlreadyUsed")
  /\ \A c \in Calls :
       LET out == Apply(Accounts, c)
       IN \A r \in ReqIds :
            (requests[r].is_active /\ out.accounts.requests[r] /= requests[r])
            => (c.name = "confirm" /\ c.req_id = r /\ out.result = "Ok")

\* C3 witness: a request is pending and a submit of its req_id by another
\* signer with another amount is refused
C3_Witness ==
  \E r \in ReqIds, u \in Signers, a \in Amounts :
    /\ requests[r].is_active
    /\ u /= requests[r].caller /\ a /= requests[r].balance
    /\ submit(Accounts, u, r, a).result = "RequestIdAlreadyUsed"

\* no call but a successful submit of its req_id changes a slot that a
\* confirm has reset
ConfirmedSlotStays ==
  \A c \in Calls :
    LET out == Apply(Accounts, c)
    IN \A r \in ReqIds :
         ( /\ requests[r].initialized /\ ~requests[r].is_active
           /\ out.accounts.requests[r] /= requests[r] )
         => (c.name = "submit" /\ c.req_id = r /\ out.result = "Ok")

\* C4 as stated: of two owner confirms of an active request with no submit
\* of its req_id between them, the first succeeds and credits the submitter
\* only, the second fails with IncorrectRequestId and credits nobody.
C4_Original ==
  /\ \A r \in ReqIds :
       LET X == requests[r].caller
           a == requests[r].balance
           first == confirm(Accounts, state.owner, r)
       IN (state.initialized /\ requests[r].initialized)
          => IF requests[r].is_active
             THEN /\ first.result = "Ok"
                  /\ first.accounts.users[X].balance = users[X].balance + a
                  /\ OnlyUserChanged(first.accounts, X)
                  /\ RejectedOn(first.accounts,
                                confirm(first.accounts, state.owner, r),
                                "IncorrectRequestId")
             ELSE Rejected(first, "IncorrectRequestId")
  /\ ConfirmedSlotStays

\* C4 (amended): of two owner confirms of an active request with no submit of
\* its req_id between them, the first succeeds provided the credit does not
\* overflow the submitter's balance, and then credits the submitter's account
\* by the request amount and changes no other account; the second fails with
\* IncorrectRequestId and changes no balance.  A confirmed slot stays
\* inactive until a submit of its req_id succeeds.
C4_ConfirmedOnce ==
  /\ \A r \in ReqIds :
       LET X == requests[r].caller
           a == requests[r].balance
           first == confirm(Accounts, state.owner, r)
       IN (state.initialized /\ requests[r].initialized)
          => IF requests[r].is_active
             THEN users[X].balance + a <= MaxU64
                  => /\ first.result = "Ok"
                     /\ first.accounts.users[X].balance = users[X].balance + a
                     /\ OnlyUserChanged(first.accounts, X)
                     /\ RejectedOn(first.accounts,
                                   confirm(first.accounts, state.owner, r),
                                   "IncorrectRequestId")
             ELSE Rejected(first, "IncorrectRequestId")
  /\ ConfirmedSlotStays

\* C4 witness: a slot was confirmed, its submitter holds the credit, and a
\* second confirm by the owner is refused with IncorrectRequestId
C4_Witness ==
  \E r \in ReqIds :
    /\ state.initialized
    /\ requests[r].initialized /\ ~requests[r].is_active /\ requests[r].req_id = r
    /\ \E k \in Signers : users[k].balance > 0
    /\ confirm(Accounts, state.owner, r).result = "IncorrectRequestId"

\* C5: an owner confirm of an active request whose amount added to the
\* submitter's balance exceeds the largest balance fails with
\* BalanceOverflow, emits nothing, keeps the slot active with its caller and
\* amount, and leaves the submitter's balance as it was.
C5_OverflowRejected ==
  \A r \in ReqIds :
    LET X == requests[r].caller
        a == requests[r].balance
        out == confirm(Accounts, state.owner, r)
    IN ( /\ state.initialized /\ requests[r].is_active
         /\ users[X].balance + a > MaxU64 )
       => /\ Rejected(out, "BalanceOverflow")
          /\ out.accounts.requests[r].is_active
          /\ out.accounts.requests[r].caller = X
          /\ out.accounts.requests[r].balance = a
          /\ out.accounts.users[X].balance = users[X].balance

\* C5 witness: the pending request does not fit its submitter's balance and
\* the owner's confirm is refused with BalanceOverflow
C5_Witness ==
  \E r \in ReqIds :
    /\ state.initialized /\ requests[r].is_active
    /\ users[requests[r].caller].balance + requests[r].balance > MaxU64
    /\ confirm(Accounts, state.owner, r).result = "BalanceOverflow"

\* C6: once GlobalState exists its owner is never the zero identity.
C6_OwnerNeverZero == state.initialized => state.owner /= Zero

\* C6 witness: GlobalState exists, requests have been confirmed under it, and
\* a transfer to the zero identity is refused
C6_Witness ==
  /\ state.initialized /\ state.owner \in Signers
  /\ \E k \in Signers : users[k].balance > 0
  /\ change_ownership(Accounts, state.owner, Zero).result /= "Ok"

\* C7 as stated: once GlobalState exists, change_ownership to the zero
\* identity fails with NewOwnerIsZero whoever signs it, and the owner is
\* unchanged.
C7_Original ==
  state.initialized =>
    \A u \in Signers :
      Rejected(change_ownership(Accounts, u, Zero), "NewOwnerIsZero")

\* C7 (amended): once GlobalState exists, change_ownership to the zero
\* identity always fails and leaves the owner unchanged; the error is
\* NewOwnerIsZero when the signer is the current owner and NotOwner when it
\* is not, because the owner check comes first.
C7_ZeroOwnerRejected ==
  state.initialized =>
    \A u \in Signers :
      LET out == change_ownership(Accounts, u, Zero)
      IN /\ Rejected(out, IF u = state.owner THEN "NewOwnerIsZero" ELSE "NotOwner")
         /\ out.accounts.state.owner = state.owner

\* C7 witness: the owner's transfer to the zero identity is refused with
\* NewOwnerIsZero and another signer's with NotOwner
C7_Witness ==
  \E u \in Signers :
    /\ state.initialized /\ u /= state.owner
    /\ change_ownership(Accounts, state.owner, Zero).result = "NewOwnerIsZero"
    /\ change_ownership(Accounts, u, Zero).result = "NotOwner"

\* C8 as stated, for the calls that follow a successful
\* change_ownership(A -> C) with C /= A: every confirm, get_request and
\* change_ownership signed by A fails with NotOwner, and none signed by C
\* does.
C8_Original ==
  state.initialized =>
    \A C \in Signers \ {state.owner} :
      LET A == state.owner
          moved == change_ownership(Accounts, A, C)
      IN /\ moved.result = "Ok"
         /\ \A r \in ReqIds, k \in Pubkeys :
              /\ confirm(moved.accounts, A, r).result = "NotOwner"
              /\ get_request(moved.accounts, A, r).result = "NotOwner"
              /\ change_ownership(moved.accounts, A, k).result = "NotOwner"
              /\ confirm(moved.accounts, C, r).result /= "NotOwner"
              /\ get_request(moved.accounts, C, r).result /= "NotOwner"
              /\ change_ownership(moved.accounts, C, k).result /= "NotOwner"

\* the owner gate on the accounts acc: a confirm, get_request or
\* change_ownership whose accounts exist fails with NotOwner exactly when
\* its signer is not acc's owner; a confirm or get_request on a req_id
\* whose Request account was never created fails with AccountNotInitialized
OwnerGate(acc) ==
  \A u \in Signers :
    /\ \A r \in ReqIds :
         IF acc.requests[r].initialized
         THEN /\ confirm(acc, u, r).result = "NotOwner" <=> u /= acc.state.owner
              /\ get_request(acc, u, r).result = "NotOwner" <=> u /= acc.state.owner
         ELSE /\ confirm(acc, u, r).result = "AccountNotInitialized"
              /\ get_request(acc, u, r).result = "AccountNotInitialized"
    /\ \A k \in Pubkeys :
         change_ownership(acc, u, k).result = "NotOwner" <=> u /= acc.state.owner

\* C8 (amended): the owner gate follows the transfers.  A successful
\* change_ownership(A -> C) makes C the owner and emits
\* OwnershipChanged{A, C}; no other call changes the owner, so the owner is
\* always the most recent new_owner.  A confirm, get_request or
\* change_ownership whose accounts exist fails with NotOwner exactly when
\* its signer is not that owner: after change_ownership(A -> C) with C /= A
\* the calls of A are refused until a later transfer names A again.  A
\* confirm or get_request on a req_id whose Request account was never
\* created fails with AccountNotInitialized for every signer.
C8_GateFollowsTransfer ==
  state.initialized =>
    /\ OwnerGate(Accounts)
    /\ \A C \in Signers :
         LET A == state.owner
             moved == change_ownership(Accounts, A, C)
         IN /\ moved.result = "Ok"
            /\ moved.accounts.state.owner = C
            /\ moved.events = <<OwnershipChanged(A, C)>>
            /\ OwnerGate(moved.accounts)
    /\ \A c \in Calls :
         LET out == Apply(Accounts, c)
         IN out.accounts.state.owner /= state.owner
            => (c.name = "change_ownership" /\ c.signer = state.owner
                /\ out.result = "Ok" /\ out.accounts.state.owner = c.key)

\* C8 witness: a request is pending; after the owner transfers ownership to
\* another signer, the former owner's confirm of it is refused with NotOwner
\* and the new owner's succeeds
C8_Witness ==
  \E C \in Signers, r \in ReqIds :
    LET A == state.owner
        moved == change_ownership(Accounts, A, C)
    IN /\ state.initialized /\ C /= A
       /\ requests[r].is_active
       /\ moved.result = "Ok"
       /\ confirm(moved.accounts, A, r).result = "NotOwner"
       /\ confirm(moved.accounts, C, r).result = "Ok"

\* C9 as stated: once GlobalState exists, every initialize fails with
\* AlreadyInitialized, emits nothing and leaves the owner unchanged.
C9_Original ==
  state.initialized =>
    \A u \in Signers : Rejected(initialize(Accounts, u), "AlreadyInitialized")

\* C9 (amended): initialize succeeds at most once in any run: it succeeds
\* only while GlobalState does not exist, no call makes GlobalState cease to
\* exist, and once it exists every initialize by any signer fails, emits no
\* event and leaves the owner unchanged.  The failure is the system
\* program's AccountAlreadyInUse raised by the `init` constraint; the
\* program's ErrorCode has no AlreadyInitialized.
C9_InitializeOnce ==
  /\ \A u \in Signers :
       LET out == initialize(Accounts, u)
       IN IF state.initialized
          THEN /\ Rejected(out, "AccountAlreadyInUse")
               /\ out.result \notin ErrorCode
               /\ out.accounts.state.owner = state.owner
          ELSE /\ out.result = "Ok"
               /\ out.accounts.state.initialized
               /\ out.accounts.state.owner = u
               /\ \A v \in Signers :
                    RejectedOn(out.accounts, initialize(out.accounts, v),
                               "AccountAlreadyInUse")
  /\ state.initialized =>
       \A c \in Calls : Apply(Accounts, c).accounts.state.initialized

\* C9 witness: GlobalState exists and an initialize by a signer who is not
\* the owner is refused
C9_Witness ==
  \E u \in Signers :
    /\ state.initialized /\ u /= state.owner
    /\ initialize(Accounts, u).result = "AccountAlreadyInUse"

\* C10 as stated: a successful confirm emits one Confirmation whose req_id is
\* the confirmed id, whose user is the request's caller, the identity whose
\* account was credited, and whose amount is the amount added to the balance.
C10_Original ==
  \A o \in Signers, r \in ReqIds :
    LET X == requests[r].caller
        out == confirm(Accounts, o, r)
    IN out.result = "Ok"
       => out.events =
            <<Confirmation(r, X, out.accounts.users[X].balance - users[X].balance)>>

\* C11: a call appends exactly one event when it is a successful
\* initialize, change_ownership, submit or confirm, and none otherwise:
\* OwnershipChanged for initialize and change_ownership, Submission{req_id,
\* caller, amount} for submit, a Confirmation for confirm; a call that
\* returns an error, and a successful read, appends nothing.
C11_OneEventPerSuccess ==
  [](
    \A c \in Calls :
      LET out == Apply(Accounts, c)
      IN IF out.result /= "Ok" THEN out.events = <<>>
         ELSE CASE c.name = "initialize" ->
                     out.events = <<OwnershipChanged(Zero, c.signer)>>
                [] c.name = "change_ownership" ->
                     out.events = <<OwnershipChanged(state.owner, c.key)>>
                [] c.name = "submit" ->
                     out.events = <<Submission(c.req_id, c.signer, c.amount)>>
                [] c.name = "confirm" ->
                     /\ Len(out.events) = 1
                     /\ out.events[1].name = "Confirmation"
                [] OTHER -> out.events = <<>>
  )

\* C11 witness: a request is pending, so that the owner's confirm of it
\* succeeds with one Confirmation while a non-owner's confirm, a second
\* submit and a second initialize fail and log nothing
C11_Witness ==
  \E r \in ReqIds, u \in Signers :
    /\ state.initialized /\ u /= state.owner
    /\ requests[r].is_active
    /\ Len(confirm(Accounts, state.owner, r).events) = 1
    /\ confirm(Accounts, u, r).result = "NotOwner"
    /\ confirm(Accounts, u, r).events = <<>>
    /\ submit(Accounts, u, r, 0).result = "RequestIdAlreadyUsed"
    /\ initialize(Accounts, u).result = "AccountAlreadyInUse"

C13_AvailableSlot ==
  \A r \in ReqIds :
    /\ requests[r].caller = Zero <=> ~requests[r].is_active
    /\ requests[r].caller = Zero => requests[r].balance = 0
    /\ \A u \in Signers, a \in Amounts :
         submit(Accounts, u, r, a).result = "Ok"
         => /\ requests[r].caller = Zero
            /\ ~requests[r].is_active
            /\ requests[r].balance = 0

\* C13 witness: a slot that was submitted with a positive amount and
\* confirmed is available again, and a submit of its req_id succeeds
C13_Witness ==
  \E r \in ReqIds, u \in Signers :
    /\ requests[r].initialized /\ requests[r].req_id = r
    /\ requests[r].caller = Zero /\ ~requests[r].is_active
    /\ requests[r].balance = 0
    /\ \E k \in Signers : users[k].balance > 0
    /\ submit(Accounts, u, r, 1).result = "Ok"

\* C14 as stated: balance_of(X) never fails and never changes state; it
\* returns the balance stored in X's user account, and 0 when X has no user
\* account.
C14_Original ==
  \A X \in Pubkeys :
    LET out == balance_of(Accounts, X)
    IN /\ out.result = "Ok"
       /\ out.ret = <<IF users[X].initialized THEN users[X].balance ELSE 0>>
       /\ out.accounts = Accounts

\* the end-to-end run of C15 from a program without GlobalState:
\* initialize(A), submit(B, r, a), confirm(A, r); then get_request(A, r)
\* returns is_active = false, balance = 0, caller = zero and balance_of(B)
\* returns a
EndToEnd ==
  \A A \in Signers, B \in Signers, r \in ReqIds, a \in Amounts :
    LET s1 == initialize(Accounts, A)
        s2 == submit(s1.accounts, B, r, a)
        s3 == confirm(s2.accounts, A, r)
        view == get_request(s3.accounts, A, r)
        bal == balance_of(s3.accounts, B)
    IN (~state.initialized /\ ~requests[r].is_active)
       => /\ s1.result = "Ok" /\ s2.result = "Ok" /\ s3.result = "Ok"
          /\ view.result = "Ok"
          /\ view.ret = <<[req_id |-> r, caller |-> Zero, balance |-> 0,
                           is_active |-> FALSE]>>
          /\ view.accounts = s3.accounts
          /\ bal.result = "Ok"
          /\ bal.ret = <<a>>

\* C15 as stated: get_request by the owner returns the req_id, caller,
\* balance and is_active of the slot whether the slot is active or
\* available, and changes no state; after initialize(A), submit(B, r, a),
\* confirm(A, r) it returns is_active = false, balance = 0, caller = zero
\* and balance_of(B) is a.
C15_Original ==
  /\ state.initialized =>
       \A r \in ReqIds :
         LET out == get_request(Accounts, state.owner, r)
         IN /\ out.result = "Ok"
            /\ out.ret = <<[req_id |-> requests[r].req_id,
                            caller |-> requests[r].caller,
                            balance |-> requests[r].balance,
                            is_active |-> requests[r].is_active]>>
            /\ out.accounts = Accounts
  /\ EndToEnd

\* C15 (amended): get_request by the owner on a req_id that has been
\* submitted at least once returns the req_id, caller, balance and is_active
\* its slot holds, whether the slot is active or was reset by a confirm,
\* emits nothing and changes no state; on a req_id never submitted it fails
\* with AccountNotInitialized and changes nothing.  After initialize(A),
\* submit(B, r, a), confirm(A, r) it returns is_active = false, balance = 0,
\* caller = zero and balance_of(B) is a.
C15_OwnerReadsSlot ==
  /\ state.initialized =>
       \A r \in ReqIds :
         LET out == get_request(Accounts, state.owner, r)
         IN IF requests[r].initialized
            THEN /\ out.result = "Ok"
                 /\ out.ret = <<[req_id |-> requests[r].req_id,
                                 caller |-> requests[r].caller,
                                 balance |-> requests[r].balance,
                                 is_active |-> requests[r].is_active]>>
                 /\ out.events = <<>>
                 /\ out.accounts = Accounts
            ELSE Rejected(out, "AccountNotInitialized")
  /\ EndToEnd

\* C15 witness: a request of a positive amount was submitted by B and
\* confirmed; the owner's get_request reads the reset slot and balance_of(B)
\* returns the credit
C15_Witness ==
  \E r \in ReqIds, B \in Signers :
    /\ state.initialized
    /\ get_request(Accounts, state.owner, r).result = "Ok"
    /\ get_request(Accounts, state.owner, r).ret =
         <<[req_id |-> r, caller |-> Zero, balance |-> 0, is_active |-> FALSE]>>
    /\ balance_of(Accounts, B).result = "Ok"
    /\ balance_of(Accounts, B).ret = <<MaxU64>>

\* C16: a submit on an available slot succeeds for every signer, the owner
\* or not, with or without GlobalState, and for every amount, 0 and the
\* largest included; availability is its only admission check, so a submit
\* fails only with RequestIdAlreadyUsed.  Afterwards the slot holds the
\* submitting identity as caller, the amount as balance, and is active.
C16_SubmitAdmitsAnyone ==
  \A r \in ReqIds, u \in Signers, a \in Amounts :
    LET out == submit(Accounts, u, r, a)
        slot == out.accounts.requests[r]
    IN /\ out.result \in {"Ok", "RequestIdAlreadyUsed"}
       /\ requests[r].caller = Zero
          => /\ out.result = "Ok"
             /\ slot.initialized
             /\ slot.req_id = r
             /\ slot.caller = u
             /\ slot.balance = a
             /\ slot.is_active

\* C16 witness: a slot used before is available again; a submit of amount 0
\* by a signer who is not the owner and a submit of the largest amount by
\* the owner both succeed
C16_Witness ==
  \E r \in ReqIds, u \in Signers :
    /\ state.initialized /\ u /= state.owner
    /\ requests[r].req_id = r /\ requests[r].caller = Zero
    /\ submit(Accounts, u, r, 0).result = "Ok"
    /\ submit(Accounts, u, r, 0).accounts.requests[r].is_active
    /\ submit(Accounts, state.owner, r, MaxU64).result = "Ok"
    /\ submit(Accounts, state.owner, r, MaxU64).accounts.requests[r].balance = MaxU64

RECURSIVE Pending(_, _)
Pending(X, n) ==
  IF n = 0 THEN 0
  ELSE Pending(X, n - 1)
       + (IF requests[n].is_active /\ requests[n].caller = X
          THEN requests[n].balance ELSE 0)

\* C18: no funds are created or lost: in every reachable state and for
\* every identity X, the sum of the amounts of X's successful submits equals
\* the balance of X's user account (0 if absent) plus the sum of the
\* balances of the active slots whose caller is X.
C18_FundsConserved ==
  \A X \in Pubkeys :
    submitted[X] = (IF users[X].initialized THEN users[X].balance ELSE 0)
                   + Pending(X, NumReqIds)

\* C18 witness: X was credited and has a further request pending that the
\* owner's confirm refuses for overflow; its submits add up to its balance
\* plus the pending amount
C18_Witness ==
  \E X \in Signers, r \in ReqIds :
    /\ state.initialized
    /\ users[X].balance > 0
    /\ requests[r].is_active /\ requests[r].caller = X /\ requests[r].balance > 0
    /\ confirm(Accounts, state.owner, r).result = "BalanceOverflow"
    /\ submitted[X] = users[X].balance + requests[r].balance
    /\ submitted[X] > MaxU64

\* C19: across every call, no user account's balance decreases, and a
\* balance differs from its previous value only when the call is a
\* successful confirm of a request whose caller is that account's identity;
\* initialize, submit, get_request, balance_of, change_ownership and the
\* confirms of other identities' requests leave it unchanged.
C19_BalanceOnlyCredited ==
  [](
    \A c \in Calls :
      LET out == Apply(Accounts, c)
      IN \A k \in Pubkeys :
           /\ out.accounts.users[k].balance >= users[k].balance
           /\ out.accounts.users[k].balance /= users[k].balance
              => /\ c.name = "confirm"
                 /\ out.result = "Ok"
                 /\ requests[c.req_id].caller = k
  )

\* C19 witness: X holds a balance and another identity's request of a
\* positive amount is pending; the owner's confirm of it credits that
\* identity and leaves X's balance as it is
C19_Witness ==
  \E X \in Signers, r \in ReqIds :
    LET Y == requests[r].caller
        out == confirm(Accounts, state.owner, r)
    IN /\ state.initialized
       /\ users[X].balance > 0
       /\ requests[r].is_active /\ Y /= X /\ requests[r].balance > 0
       /\ out.result = "Ok"
       /\ out.accounts.users[Y].balance > users[Y].balance
       /\ out.accounts.users[X].balance = users[X].balance

\* the owner's confirm of req_id r fails with BalanceOverflow
Overflowed(r) ==
  /\ state.initialized
  /\ confirm(Accounts, state.owner, r).result = "BalanceOverflow"

\* the request r is active and cannot leave that state by the next call: a
\* confirm by the owner fails with BalanceOverflow, a confirm by any other
\* signer fails too, and every submit of r fails with RequestIdAlreadyUsed
StuckActive(r) ==
  /\ requests[r].is_active
  /\ \A u \in Signers :
       confirm(Accounts, u, r).result =
         IF u = state.owner THEN "BalanceOverflow" ELSE "NotOwner"
  /\ \A u \in Signers, a \in Amounts :
       submit(Accounts, u, r, a).result = "RequestIdAlreadyUsed"

\* C20: once an owner confirm of a req_id fails with BalanceOverflow, the
\* request never leaves the active state: in every continuation, every later
\* confirm of that req_id by whoever is then the owner fails with
\* BalanceOverflow and every later submit of it fails with
\* RequestIdAlreadyUsed.
C20_OverflowIsForever ==
  \A r \in ReqIds : [](Overflowed(r) => []StuckActive(r))

\* C20 witness: a request that overflows its submitter's balance is
\* pending, its submitter's submits add up to more than the largest
\* balance, and the owner, here the submitter itself, is refused its confirm
\* with BalanceOverflow while every submit of the req_id is refused too
C20_Witness ==
  \E r \in ReqIds :
    /\ Overflowed(r)
    /\ StuckActive(r)
    /\ submitted[requests[r].caller] > MaxU64
    /\ state.owner = requests[r].caller

====
